---- MODULE Spec2Model ----
(***************************************************************************)
(* Session coordination layer of the narrative party game: the registry   *)
(* of game sessions (GameSessionManager), one GameSession object per      *)
(* session, and the per-connection control loop                           *)
(* handle_websocket_connection, all of                                     *)
(* backend/endpoints/game_session_websocket.py.                            *)
(*                                                                         *)
(* The program runs on one asyncio event loop.  A step of the model is    *)
(* what one handler does between two suspension points that matter: the   *)
(* reception of one message and everything the handler does with it.  The *)
(* two broadcast loops of the host (update_game_state, update_characters) *)
(* are suspended at every send, so they take one step per send.           *)
(***************************************************************************)
EXTENDS Integers, Sequences, FiniteSets, TLC

(***************************************************************************)
(* Bounds of the model.                                                    *)
(***************************************************************************)
NumConns == 3       \* accepted WebSocket connections
MaxCode == 1        \* random.randint(0, MaxCode) stands for randint(0, 9999)
MaxRoster == 2      \* longest character list a host provides
MaxSetting == 4     \* largest scenesPerChapter / chaptersPerArc a client sends
MaxChapterIndex == 6  \* largest currentChapterIndex of a request
MaxRounds == 4      \* largest roundsInCurrentChapter of a request
MaxCharacters == 2  \* longest characters list of a request
MaxActions == 10    \* most actions of one game that are followed

Conns == 1..NumConns

\* Python's None, where the other values are records.
None == [none |-> TRUE]
\* No GameSession object (the handler's local `session` is None).
NoSession == 0

\* the names of the characters a host provides (MaxRoster of them are used)
Party == <<"Aria", "Borin", "Cyra", "Dain">>
ActionTexts == {"attack"}

TakenMessage == "This character is already taken by another player"
InvalidMessage == "Invalid character selection"
InvalidCodeMessage == "Invalid session code"

\* What a send can do: return, or raise.  starlette raises WebSocketDisconnect
\* or another exception (RuntimeError, an error of the server) according to
\* the state of the transport.
SendOutcomes == {"ok", "WebSocketDisconnect", "Exception"}
\* A send inside a try/except Exception: the exception's class is irrelevant.
CaughtOutcomes == {"ok", "Exception"}

VARIABLES
    active_sessions,   \* GameSessionManager.active_sessions: code -> session object
    used_codes,        \* GameSessionManager.used_codes
    game_sessions,     \* the GameSession objects, named by their host connection
    pc,                \* where each connection's handler stands
    session,           \* each handler's local `session` (NoSession for None)
    iter,              \* index of the list iterator of the host's running loop
    hung,              \* generate_session_code spins without awaiting
    pending,           \* the message each handler is suspended sending, when
                       \* its handling goes on after the send (else None)
    last,              \* the message handled by the last step
    sent,              \* the sends attempted by the last step, in order
    game_state,        \* the GameState of an ActionRequest posted to take_action
    call,              \* the locals of the call of take_action that is
                       \* suspended in an await (None: no call is running)
    result,            \* what take_action answered to it (None: not yet)
    answers            \* the actions answered so far in this game, in order

\* the state of the session layer, and that of the story endpoint
session_vars == <<active_sessions, used_codes, game_sessions, pc, session, iter,
                  hung, pending, last, sent>>
story_vars == <<game_state, call, result, answers>>

vars == <<active_sessions, used_codes, game_sessions, pc, session, iter, hung,
          pending, last, sent, game_state, call, result, answers>>

(***************************************************************************)
(* Python dicts and lists.                                                 *)
(***************************************************************************)
EmptyDict == [k \in {} |-> 0]
DictSet(d, k, v) == [x \in (DOMAIN d) \cup {k} |-> IF x = k THEN v ELSE d[x]]
DictDel(d, k) == [x \in (DOMAIN d) \ {k} |-> d[x]]
DictValues(d) == {d[x] : x \in DOMAIN d}

Elems(l) == {l[j] : j \in 1..Len(l)}
MinOf(S) == CHOOSE x \in S : \A y \in S : x <= y
\* list.index(x), 0-based; the caller has x in the list
ListIndex(l, x) == MinOf({j \in 1..Len(l) : l[j] = x}) - 1
\* a removal that drops the last item instead of x
ListRemove_Last(l, x) == SubSeq(l, 1, Len(l) - 1)

\* list.remove(x): the first occurrence goes, the rest keeps its order
ListRemove(l, x) ==
    LET p == ListIndex(l, x) + 1
    IN  [j \in 1..(Len(l) - 1) |-> IF j < p THEN l[j] ELSE l[j + 1]]

(***************************************************************************)
(* Messages.                                                               *)
(***************************************************************************)
Msg(to, type, data, outcome) ==
    [to |-> to, type |-> type, data |-> data, outcome |-> outcome]

\* f"{n:04d}", as the four digits
Format04d(n) ==
    <<n \div 1000, (n \div 100) % 10, (n \div 10) % 10, n % 10>>

CodeSpace == {Format04d(n) : n \in 0..MaxCode}
\* sessionCode of a join_session message: a code of the code space, or the
\* unpadded "1"
JoinInputs == CodeSpace \cup {<<1>>}

\* characters of an update_characters message: the last n names of the party,
\* for every length n from 1 to MaxRoster
Rosters ==
    {[j \in 1..n |-> [name |-> Party[MaxRoster - n + j]]] : n \in 1..MaxRoster}
\* scene of an update_game_state message: two scenes, of different text and
\* different active character
SceneDicts ==
    {[text |-> "s1", activeCharacterIndex |-> 0],
     [text |-> "s2", activeCharacterIndex |-> 1]}
CharacterIndexInputs == (0 - 1)..MaxRoster

\* StoryScene(**scene): pydantic keeps the declared fields (text, image,
\* choices) and ignores the others
StoryScene(d) == [text |-> d.text, image |-> None, choices |-> <<>>]

(***************************************************************************)
(* GameSessionManager.                                                     *)
(***************************************************************************)
\* generate_session_code without the test against used_codes
generate_session_code_AnyCode(used) == CodeSpace

\* the codes the retry loop can return: those not in used_codes
generate_session_code(used) == CodeSpace \ used

\* a lookup that falls back on some registered session
get_session_Fallback(sessions, code) ==
    IF code \in DOMAIN sessions THEN sessions[code]
    ELSE IF DOMAIN sessions # {} THEN sessions[CHOOSE k \in DOMAIN sessions : TRUE]
    ELSE NoSession

get_session(sessions, code) ==
    IF code \in DOMAIN sessions THEN sessions[code] ELSE NoSession

\* a removal that leaves the registry as it is
remove_session_Keep(sessions, code) == sessions

remove_session(sessions, code) ==
    IF code \in DOMAIN sessions THEN DictDel(sessions, code) ELSE sessions

(***************************************************************************)
(* GameSession.                                                            *)
(***************************************************************************)
\* a session object made without its host
GameSession_NoHost(code, host) ==
    [session_code |-> code,
     host_websocket |-> NoSession,
     player_connections |-> <<>>,
     current_scene |-> None,
     characters |-> <<>>,
     assigned_characters |-> EmptyDict]

GameSession(code, host) ==
    [session_code |-> code,
     host_websocket |-> host,
     player_connections |-> <<>>,
     current_scene |-> None,
     characters |-> <<>>,
     assigned_characters |-> EmptyDict]

\* an available_characters message that flags no character as assigned
available_characters_NoneAssigned(gs, ws, outcome) ==
    Msg(ws, "available_characters",
        [characters |->
            [j \in 1..Len(gs.characters) |->
                [name |-> gs.characters[j].name, assigned |-> FALSE]]],
        outcome)

\* the available_characters message of send_available_characters
available_characters(gs, ws, outcome) ==
    Msg(ws, "available_characters",
        [characters |->
            [j \in 1..Len(gs.characters) |->
                [name |-> gs.characters[j].name,
                 assigned |-> (j - 1) \in DictValues(gs.assigned_characters)]]],
        outcome)

\* a push that sends a scene other than the one stored
send_game_state_to_player_OtherScene(gs, ws, outcome) ==
    IF ws \in DOMAIN gs.assigned_characters /\ gs.current_scene # None
    THEN <<Msg(ws, "game_state_update",
               [newScene |-> CHOOSE sc \in {StoryScene(d) : d \in SceneDicts} :
                                sc # gs.current_scene],
               outcome)>>
    ELSE <<>>

\* a push that sends nothing
send_game_state_to_player_Never(gs, ws, outcome) == <<>>

\* send_game_state_to_player: the sends it attempts.  current_scene None makes
\* model_dump raise AttributeError, which the except clause takes.
send_game_state_to_player(gs, ws, outcome) ==
    IF ws \in DOMAIN gs.assigned_characters /\ gs.current_scene # None
    THEN <<Msg(ws, "game_state_update", [newScene |-> gs.current_scene], outcome)>>
    ELSE <<>>

\* self.current_scene.activeCharacterIndex: "raise" for the AttributeError of
\* None or of a scene object without that attribute
activeCharacterIndex(scene) ==
    IF scene # None /\ "activeCharacterIndex" \in DOMAIN scene
    THEN [raised |-> FALSE, value |-> scene.activeCharacterIndex]
    ELSE [raised |-> TRUE, value |-> 0 - 1]

\* a disconnect_player that, for a websocket that is not in the list, drops
\* the last one of the list
disconnect_player_Unguarded(gs, ws) ==
    IF ws \in Elems(gs.player_connections)
    THEN [gs EXCEPT !.player_connections = ListRemove(@, ws),
                    !.assigned_characters = DictDel(@, ws)]
    ELSE [gs EXCEPT !.player_connections =
                        SubSeq(@, 1, IF Len(@) = 0 THEN 0 ELSE Len(@) - 1)]

disconnect_player(gs, ws) ==
    IF ws \in Elems(gs.player_connections)
    THEN [gs EXCEPT !.player_connections = ListRemove(@, ws),
                    !.assigned_characters = DictDel(@, ws)]
    ELSE gs

\* assign_character without the test for a taken character
CharacterTaken_Never(gs, character_index) == FALSE

\* `character_index in self.assigned_characters.values()`
CharacterTaken(gs, character_index) ==
    character_index \in DictValues(gs.assigned_characters)

\* the notification of the host at the end of assign_character
player_character_assigned(gs, ws, character_index, outcome) ==
    Msg(gs.host_websocket, "player_character_assigned",
        [player_index |-> ListIndex(gs.player_connections, ws),
         character_index |-> character_index,
         character_name |-> gs.characters[character_index + 1].name],
        outcome)

\* assign_character up to its first await: the session afterwards and the
\* reply it starts to send to the player (an error, or the confirmation with
\* the character as the roster has it now)
assign_character(gs, ws, character_index) ==
    IF CharacterTaken(gs, character_index)
    THEN [gs |-> gs,
          reply |-> Msg(ws, "error", [message |-> TakenMessage], "pending")]
    ELSE IF character_index < 0 \/ character_index >= Len(gs.characters)
    THEN [gs |-> gs,
          reply |-> Msg(ws, "error", [message |-> InvalidMessage], "pending")]
    ELSE [gs |-> [gs EXCEPT !.assigned_characters =
                                DictSet(@, ws, character_index)],
          reply |-> Msg(ws, "character_assigned",
                        [character |-> gs.characters[character_index + 1]],
                        "pending")]

\* the end of assign_character: the notification of the host, built from the
\* session as it is after the sends to the player; an index the roster no
\* longer has raises IndexError inside the try, and nothing is sent
notify_host(gs, ws, character_index, outcome) ==
    IF character_index < Len(gs.characters)
    THEN <<player_character_assigned(gs, ws, character_index, outcome)>>
    ELSE <<>>

\* handle_player_action: the sends attempted and the exception that leaves it
handle_player_action(gs, player_index, action, o1) ==
    IF player_index < Len(gs.player_connections)
    THEN LET player_ws == gs.player_connections[player_index + 1]
         IN  IF player_ws \notin DOMAIN gs.assigned_characters
             THEN [sent |-> <<>>, raised |-> "none"]
             ELSE LET character_index == gs.assigned_characters[player_ws]
                      active == activeCharacterIndex(gs.current_scene)
                  IN  IF active.raised
                      THEN [sent |-> <<>>, raised |-> "Exception"]
                      ELSE IF character_index # active.value
                      THEN [sent |-> <<>>, raised |-> "none"]
                      ELSE [sent |-> <<Msg(gs.host_websocket, "player_action",
                                           [player_index |-> character_index,
                                            action |-> action], o1)>>,
                            raised |-> "none"]
    ELSE [sent |-> <<>>, raised |-> "none"]

\* The loops of update_game_state and update_characters walk
\* self.player_connections with a list iterator, whose index `it` counts the
\* items taken.  The next item the loop suspends on is the first one from
\* there that the loop's test lets through; 0 when the loop runs to its end.
Qualifies(gs, ws, loop) ==
    IF loop = "bcast_state"
    THEN ws \in DOMAIN gs.assigned_characters
    ELSE ws \notin DOMAIN gs.assigned_characters

NextRecipient(gs, it, loop) ==
    LET cand == {j \in (it + 1)..Len(gs.player_connections) :
                    Qualifies(gs, gs.player_connections[j], loop)}
    IN  IF cand = {} THEN 0 ELSE MinOf(cand)

LoopSend(gs, ws, loop, outcome) ==
    IF loop = "bcast_state"
    THEN send_game_state_to_player(gs, ws, outcome)
    ELSE <<available_characters(gs, ws, outcome)>>

(***************************************************************************)
(* handle_websocket_connection.                                            *)
(***************************************************************************)
\* "creating": the host's handler is suspended in the send of session_created
HostStates == {"creating", "host", "bcast_state", "bcast_chars"}
\* "joining": suspended in the send of connect_player; "assigning": in the
\* first send of assign_character; "pushing": in its send of the game state
PlayerStates == {"joining", "player", "assigning", "pushing"}

\* The message a step handled: its type, the connection it came from, its
\* argument (the character index of select_character, the code of
\* join_session, the join position of a disconnecting player, else 0) and
\* how the handling ended: "none" (the handler goes on), "return", or the
\* exception raised.
Last(op, conn, arg, raised) ==
    [op |-> op, conn |-> conn, arg |-> arg, raised |-> raised]

\* a handler that takes a first message again while it serves as host
FirstTurn_Again(c) ==
    /\ pc[c] \in {"awaiting", "host"}
    /\ \A d \in Conns : d < c => pc[d] # "awaiting"

\* Connections are numbered in the order in which their handlers leave the
\* wait for the first message (a connection is only an identity, so this
\* loses no behaviour).
FirstTurn(c) ==
    /\ pc[c] = "awaiting"
    /\ \A d \in Conns : d < c => pc[d] # "awaiting"

Init ==
    /\ active_sessions = EmptyDict
    /\ used_codes = {}
    /\ game_sessions = EmptyDict
    /\ pc = [c \in Conns |-> "awaiting"]
    /\ session = [c \in Conns |-> NoSession]
    /\ iter = [c \in Conns |-> 0]
    /\ hung = FALSE
    /\ pending = [c \in Conns |-> None]
    /\ last = Last("init", 0, 0, "none")
    /\ sent = <<>>
    /\ game_state = None
    /\ call = None
    /\ result = None
    /\ answers = <<>>

\* player_left with the number of players before the removal
player_left_CountBefore(gs, outcome) ==
    Msg(gs.host_websocket, "player_left",
        [player_count |-> Len(gs.player_connections) + 1], outcome)

\* the player_left message of the except clause, built after disconnect_player
player_left(gs, outcome) ==
    Msg(gs.host_websocket, "player_left",
        [player_count |-> Len(gs.player_connections)], outcome)

\* The except clauses, for a player's handler that `raised` left with the
\* session object as `gs`: WebSocketDisconnect removes the player and tells
\* the host; any other exception ends the handler and nothing else.
PlayerOutcome(c, gs, raised, sends, oLeft) ==
    LET s == session[c]
        g2 == IF raised = "WebSocketDisconnect" THEN disconnect_player(gs, c) ELSE gs
    IN  /\ pc' = [pc EXCEPT ![c] = IF raised = "none" THEN "player" ELSE "closed"]
        /\ game_sessions' = [game_sessions EXCEPT ![s] = g2]
        /\ sent' = IF raised = "WebSocketDisconnect"
                   THEN sends \o <<player_left(g2, oLeft)>>
                   ELSE sends

\* except clauses of which only WebSocketDisconnect removes the session
HostOutcome_DisconnectOnly(h, raised) ==
    /\ pc' = [pc EXCEPT ![h] = IF raised = "none" THEN "host" ELSE "closed"]
    /\ active_sessions' =
          IF raised = "WebSocketDisconnect"
          THEN remove_session(active_sessions, game_sessions[h].session_code)
          ELSE active_sessions

\* The except clauses, for the host's handler: both remove the session.
HostOutcome(h, raised) ==
    /\ pc' = [pc EXCEPT ![h] = IF raised = "none" THEN "host" ELSE "closed"]
    /\ active_sessions' =
          IF raised = "none" THEN active_sessions
          ELSE remove_session(active_sessions, game_sessions[h].session_code)

\* first message create_session: the session is registered, and the handler
\* is suspended in the send of session_created
CreateSession(c) ==
    /\ ~hung
    /\ FirstTurn(c)
    /\ \E code \in generate_session_code(used_codes) :
          /\ used_codes' = used_codes \cup {code}
          /\ active_sessions' = DictSet(active_sessions, code, c)
          /\ game_sessions' = DictSet(game_sessions, c, GameSession(code, c))
          /\ pending' = [pending EXCEPT
                            ![c] = Msg(c, "session_created",
                                       [session_code |-> code], "pending")]
    /\ session' = [session EXCEPT ![c] = c]
    /\ pc' = [pc EXCEPT ![c] = "creating"]
    /\ last' = Last("create_session", c, 0, "none")
    /\ sent' = <<>>
    /\ UNCHANGED <<iter, hung>>
    /\ UNCHANGED story_vars

\* the send of session_created returns, or raises: the handler enters its
\* loop as host, or an except clause removes the session
SessionCreated(c) ==
    /\ ~hung
    /\ pc[c] = "creating"
    /\ \E o \in SendOutcomes :
          LET raised == IF o = "ok" THEN "none" ELSE o
          IN  /\ HostOutcome(c, raised)
              /\ sent' = <<[pending[c] EXCEPT !.outcome = o]>>
              /\ last' = Last("session_created", c, 0, raised)
    /\ pending' = [pending EXCEPT ![c] = None]
    /\ UNCHANGED <<used_codes, game_sessions, session, iter, hung>>
    /\ UNCHANGED story_vars

\* first message create_session when every code is in used_codes: the loop of
\* generate_session_code never ends and never awaits
CreateSessionSpin(c) ==
    /\ ~hung
    /\ FirstTurn(c)
    /\ generate_session_code(used_codes) = {}
    /\ hung' = TRUE
    /\ last' = Last("create_session", c, 0, "none")
    /\ sent' = <<>>
    /\ UNCHANGED <<active_sessions, used_codes, game_sessions, pc, session, iter>>
    /\ UNCHANGED <<pending, story_vars>>

\* a join_session that is also served in the loop of a handler without role
JoinSession_InLoop(c, code) ==
    /\ ~hung
    /\ FirstTurn(c) \/ pc[c] = "norole"
    /\ get_session(active_sessions, code) # NoSession
    /\ \E o1 \in CaughtOutcomes :
          LET s == get_session(active_sessions, code)
              g2 == [game_sessions[s] EXCEPT !.player_connections = Append(@, c)]
          IN  /\ game_sessions' = [game_sessions EXCEPT ![s] = g2]
              /\ session' = [session EXCEPT ![c] = s]
              /\ sent' = <<available_characters(g2, c, o1)>>
    /\ pc' = [pc EXCEPT ![c] = "joining"]
    /\ last' = Last("join_session", c, code, "none")
    /\ UNCHANGED <<active_sessions, used_codes, iter, hung>>
    /\ UNCHANGED <<pending, story_vars>>

\* first message join_session, get_session finds the session: connect_player
\* appends the connection and the handler is suspended in the send of the
\* roster (an exception of that send is caught in send_available_characters)
JoinSession(c, code) ==
    /\ ~hung
    /\ FirstTurn(c)
    /\ get_session(active_sessions, code) # NoSession
    /\ \E o1 \in CaughtOutcomes :
          LET s == get_session(active_sessions, code)
              g2 == [game_sessions[s] EXCEPT !.player_connections = Append(@, c)]
          IN  /\ game_sessions' = [game_sessions EXCEPT ![s] = g2]
              /\ session' = [session EXCEPT ![c] = s]
              /\ sent' = <<available_characters(g2, c, o1)>>
    /\ pc' = [pc EXCEPT ![c] = "joining"]
    /\ last' = Last("join_session", c, code, "none")
    /\ UNCHANGED <<active_sessions, used_codes, iter, hung>>
    /\ UNCHANGED <<pending, story_vars>>

\* the send of connect_player is over: player_joined is built with the
\* number of players there are now and sent to the host, and the handler
\* enters its loop
JoinNotify(c) ==
    /\ ~hung
    /\ pc[c] = "joining"
    /\ \E o2 \in CaughtOutcomes :
          LET gs == game_sessions[session[c]]
          IN  sent' = <<Msg(gs.host_websocket, "player_joined",
                            [player_count |-> Len(gs.player_connections)], o2)>>
    /\ pc' = [pc EXCEPT ![c] = "player"]
    /\ last' = Last("join_notify", c, 0, "none")
    /\ UNCHANGED <<active_sessions, used_codes, game_sessions, session, iter, hung>>
    /\ UNCHANGED <<pending, story_vars>>

\* first message join_session, get_session returns None
JoinUnknown(c, code) ==
    /\ ~hung
    /\ FirstTurn(c)
    /\ get_session(active_sessions, code) = NoSession
    /\ \E o \in SendOutcomes :
          /\ sent' = <<Msg(c, "join_session_error", [message |-> InvalidCodeMessage], o)>>
          /\ last' = Last("join_session", c, code, IF o = "ok" THEN "return" ELSE o)
    /\ pc' = [pc EXCEPT ![c] = "closed"]
    /\ UNCHANGED <<active_sessions, used_codes, game_sessions, session, iter,
                   hung>>
    /\ UNCHANGED <<pending, story_vars>>

\* first message of another type: the handler enters its loop with
\* session None and is_host False
FirstOther(c) ==
    /\ ~hung
    /\ FirstTurn(c)
    /\ pc' = [pc EXCEPT ![c] = "norole"]
    /\ last' = Last("other", c, 0, "none")
    /\ sent' = <<>>
    /\ UNCHANGED <<active_sessions, used_codes, game_sessions, session, iter,
                   hung>>
    /\ UNCHANGED <<pending, story_vars>>

\* a message in the loop of a handler without session: player_action and
\* select_character dereference None, the other types are passed over
NoRoleMessage(c, type) ==
    /\ ~hung
    /\ pc[c] = "norole"
    /\ LET raises == type \in {"player_action", "select_character"}
       IN  /\ pc' = [pc EXCEPT ![c] = IF raises THEN "closed" ELSE "norole"]
           /\ last' = Last(type, c, 0, IF raises THEN "Exception" ELSE "none")
    /\ sent' = <<>>
    /\ UNCHANGED <<active_sessions, used_codes, game_sessions, session, iter,
                   hung>>
    /\ UNCHANGED <<pending, story_vars>>

\* receive_json raises WebSocketDisconnect in a handler without session
NoRoleDisconnect(c) ==
    /\ ~hung
    /\ FirstTurn(c) \/ pc[c] = "norole"
    /\ pc' = [pc EXCEPT ![c] = "closed"]
    /\ last' = Last("disconnect", c, 0, "WebSocketDisconnect")
    /\ sent' = <<>>
    /\ UNCHANGED <<active_sessions, used_codes, game_sessions, session, iter,
                   hung>>
    /\ UNCHANGED <<pending, story_vars>>

\* a player's select_character: assign_character runs to its first await, the
\* send of its reply to the player
SelectCharacter(c, character_index) ==
    /\ ~hung
    /\ pc[c] = "player"
    /\ LET r == assign_character(game_sessions[session[c]], c, character_index)
       IN  /\ game_sessions' = [game_sessions EXCEPT ![session[c]] = r.gs]
           /\ pending' = [pending EXCEPT ![c] = r.reply]
    /\ pc' = [pc EXCEPT ![c] = "assigning"]
    /\ last' = Last("select_character", c, character_index, "none")
    /\ sent' = <<>>
    /\ UNCHANGED <<active_sessions, used_codes, session, iter, hung>>
    /\ UNCHANGED story_vars

\* The send of the reply of assign_character returns, or raises (o1).  An
\* exception leaves assign_character for the except clauses; after an error
\* reply assign_character returns; after the confirmation it calls
\* send_game_state_to_player, which awaits a send when there is a scene (o2,
\* caught); without a scene it goes straight on to the notification of the
\* host (o3, caught).
AssignReply(c) ==
    /\ ~hung
    /\ pc[c] = "assigning"
    /\ \E o1 \in SendOutcomes, o2 \in CaughtOutcomes, o3 \in CaughtOutcomes :
          LET gs == game_sessions[session[c]]
              reply == [pending[c] EXCEPT !.outcome = o1]
              push == send_game_state_to_player(gs, c, o2)
          IN  /\ o1 # "ok" \/ reply.type = "error" => o2 = "ok"
              /\ o1 = "Exception" \/ (o1 = "ok" /\ reply.type = "error") => o3 = "ok"
              /\ o1 = "ok" /\ reply.type # "error" /\ push # <<>> => o3 = "ok"
              /\ o1 = "ok" /\ reply.type # "error" /\ push = <<>> => o2 = "ok"
              /\ IF o1 # "ok"
                 THEN /\ PlayerOutcome(c, gs, o1, <<reply>>, o3)
                      /\ last' = Last("select_reply", c, 0, o1)
                 ELSE /\ game_sessions' = game_sessions
                      /\ last' = Last("select_reply", c, 0, "none")
                      /\ IF reply.type = "error"
                         THEN /\ sent' = <<reply>>
                              /\ pc' = [pc EXCEPT ![c] = "player"]
                         ELSE IF push # <<>>
                         THEN /\ sent' = <<reply>> \o push
                              /\ pc' = [pc EXCEPT ![c] = "pushing"]
                         ELSE /\ sent' = <<reply>> \o
                                  notify_host(gs, c, gs.assigned_characters[c], o3)
                              /\ pc' = [pc EXCEPT ![c] = "player"]
    /\ pending' = [pending EXCEPT ![c] = None]
    /\ UNCHANGED <<active_sessions, used_codes, session, iter, hung>>
    /\ UNCHANGED story_vars

\* the send of the game state is over: the host is notified (o3, caught) and
\* assign_character returns
AssignNotify(c) ==
    /\ ~hung
    /\ pc[c] = "pushing"
    /\ \E o3 \in CaughtOutcomes :
          LET gs == game_sessions[session[c]]
          IN  sent' = notify_host(gs, c, gs.assigned_characters[c], o3)
    /\ pc' = [pc EXCEPT ![c] = "player"]
    /\ last' = Last("select_notify", c, 0, "none")
    /\ UNCHANGED <<active_sessions, used_codes, game_sessions, session, iter, hung>>
    /\ UNCHANGED <<pending, story_vars>>

\* a player's player_action
PlayerAction(c, action) ==
    /\ ~hung
    /\ pc[c] = "player"
    /\ \E o1 \in CaughtOutcomes :
          LET gs == game_sessions[session[c]]
              player_index == ListIndex(gs.player_connections, c)
              r == handle_player_action(gs, player_index, action, o1)
          IN  /\ PlayerOutcome(c, gs, r.raised, r.sent, "ok")
              /\ last' = Last("player_action", c, 0, r.raised)
    /\ UNCHANGED <<active_sessions, used_codes, session, iter, hung>>
    /\ UNCHANGED <<pending, story_vars>>

\* a player's message of a type its branch does not name
PlayerIgnored(c, type) ==
    /\ ~hung
    /\ pc[c] = "player"
    /\ last' = Last(type, c, 0, "none")
    /\ sent' = <<>>
    /\ UNCHANGED <<active_sessions, used_codes, game_sessions, pc, session, iter,
                   hung>>
    /\ UNCHANGED <<pending, story_vars>>

\* a player's message without the keys the handler reads (KeyError)
PlayerMalformed(c) ==
    /\ ~hung
    /\ pc[c] = "player"
    /\ PlayerOutcome(c, game_sessions[session[c]], "Exception", <<>>, "ok")
    /\ last' = Last("malformed", c, 0, "Exception")
    /\ UNCHANGED <<active_sessions, used_codes, session, iter, hung>>
    /\ UNCHANGED <<pending, story_vars>>

\* receive_json raises WebSocketDisconnect in a player's handler
PlayerDisconnect(c) ==
    /\ ~hung
    /\ pc[c] = "player"
    /\ \E oLeft \in CaughtOutcomes :
          PlayerOutcome(c, game_sessions[session[c]], "WebSocketDisconnect", <<>>, oLeft)
    /\ last' = Last("disconnect", c,
                    ListIndex(game_sessions[session[c]].player_connections, c),
                    "WebSocketDisconnect")
    /\ UNCHANGED <<active_sessions, used_codes, session, iter, hung>>
    /\ UNCHANGED <<pending, story_vars>>

\* One run of a host's loop from iterator index `it` to its next send, or to
\* its end.
RunLoop(h, gs, it, loop) ==
    LET j == NextRecipient(gs, it, loop)
    IN  /\ \E o \in CaughtOutcomes :
              sent' = IF j = 0 THEN <<>>
                      ELSE LoopSend(gs, gs.player_connections[j], loop, o)
        /\ iter' = [iter EXCEPT ![h] = j]
        /\ pc' = [pc EXCEPT ![h] = IF j = 0 THEN "host" ELSE loop]

\* the host's update_game_state
UpdateGameState(h, scene) ==
    /\ ~hung
    /\ pc[h] = "host"
    /\ LET g2 == [game_sessions[h] EXCEPT !.current_scene = StoryScene(scene)]
       IN  /\ game_sessions' = [game_sessions EXCEPT ![h] = g2]
           /\ RunLoop(h, g2, 0, "bcast_state")
    /\ last' = Last("update_game_state", h, 0, "none")
    /\ UNCHANGED <<active_sessions, used_codes, session, hung>>
    /\ UNCHANGED <<pending, story_vars>>

\* the host's update_characters
UpdateCharacters(h, characters) ==
    /\ ~hung
    /\ pc[h] = "host"
    /\ LET g2 == [game_sessions[h] EXCEPT !.characters = characters]
       IN  /\ game_sessions' = [game_sessions EXCEPT ![h] = g2]
           /\ RunLoop(h, g2, 0, "bcast_chars")
    /\ last' = Last("update_characters", h, 0, "none")
    /\ UNCHANGED <<active_sessions, used_codes, session, hung>>
    /\ UNCHANGED <<pending, story_vars>>

\* a send of a running loop returns (or its exception is caught) and the loop
\* goes on
ContinueLoop(h) ==
    /\ ~hung
    /\ pc[h] \in {"bcast_state", "bcast_chars"}
    /\ RunLoop(h, game_sessions[h], iter[h], pc[h])
    /\ last' = Last("continue", h, 0, "none")
    /\ UNCHANGED <<active_sessions, used_codes, game_sessions, session, hung>>
    /\ UNCHANGED <<pending, story_vars>>

\* a host's handler that an unnamed type ends like an exception
HostIgnored_Fatal(h, type) ==
    /\ ~hung
    /\ pc[h] = "host"
    /\ HostOutcome(h, "Exception")
    /\ last' = Last(type, h, 0, "Exception")
    /\ sent' = <<>>
    /\ UNCHANGED <<used_codes, game_sessions, session, iter, hung>>
    /\ UNCHANGED <<pending, story_vars>>

\* a host's message of a type its branch does not name
HostIgnored(h, type) ==
    /\ ~hung
    /\ pc[h] = "host"
    /\ last' = Last(type, h, 0, "none")
    /\ sent' = <<>>
    /\ UNCHANGED <<active_sessions, used_codes, game_sessions, pc, session, iter,
                   hung>>
    /\ UNCHANGED <<pending, story_vars>>

\* a host's message that makes the handler raise (a missing key, a scene
\* StoryScene rejects): except Exception
HostMalformed(h) ==
    /\ ~hung
    /\ pc[h] = "host"
    /\ HostOutcome(h, "Exception")
    /\ last' = Last("malformed", h, 0, "Exception")
    /\ sent' = <<>>
    /\ UNCHANGED <<used_codes, game_sessions, session, iter, hung>>
    /\ UNCHANGED <<pending, story_vars>>

\* receive_json raises WebSocketDisconnect in the host's handler
HostDisconnect(h) ==
    /\ ~hung
    /\ pc[h] = "host"
    /\ HostOutcome(h, "WebSocketDisconnect")
    /\ last' = Last("disconnect", h, 0, "WebSocketDisconnect")
    /\ sent' = <<>>
    /\ UNCHANGED <<used_codes, game_sessions, session, iter, hung>>
    /\ UNCHANGED <<pending, story_vars>>

\* GameSessionManager.set_session_characters, called from outside the
\* handlers: the roster of the session registered under the code is replaced
\* and nothing is sent
SetSessionCharacters(code, characters) ==
    /\ ~hung
    /\ LET s == get_session(active_sessions, code)
       IN  game_sessions' = IF s = NoSession THEN game_sessions
                            ELSE [game_sessions EXCEPT ![s].characters = characters]
    /\ last' = Last("set_session_characters", 0, code, "none")
    /\ sent' = <<>>
    /\ UNCHANGED <<active_sessions, used_codes, pc, session, iter, hung>>
    /\ UNCHANGED <<pending, story_vars>>

MessageTypes ==
    {"select_character", "player_action", "update_game_state", "update_characters",
     "unknown"}

Next ==
    \/ \E c \in Conns : CreateSession(c)
    \/ \E c \in Conns : SessionCreated(c)
    \/ \E c \in Conns : CreateSessionSpin(c)
    \/ \E c \in Conns, code \in JoinInputs : JoinSession(c, code)
    \/ \E c \in Conns : JoinNotify(c)
    \/ \E c \in Conns, code \in JoinInputs : JoinUnknown(c, code)
    \/ \E c \in Conns : FirstOther(c)
    \/ \E c \in Conns, type \in MessageTypes : NoRoleMessage(c, type)
    \/ \E c \in Conns : NoRoleDisconnect(c)
    \/ \E c \in Conns, i \in CharacterIndexInputs : SelectCharacter(c, i)
    \/ \E c \in Conns : AssignReply(c)
    \/ \E c \in Conns : AssignNotify(c)
    \/ \E c \in Conns, a \in ActionTexts : PlayerAction(c, a)
    \/ \E c \in Conns,
          type \in MessageTypes \ {"select_character", "player_action"} :
          PlayerIgnored(c, type)
    \/ \E c \in Conns : PlayerMalformed(c)
    \/ \E c \in Conns : PlayerDisconnect(c)
    \/ \E h \in Conns, scene \in SceneDicts : UpdateGameState(h, scene)
    \/ \E h \in Conns, characters \in Rosters : UpdateCharacters(h, characters)
    \/ \E h \in Conns : ContinueLoop(h)
    \/ \E h \in Conns,
          type \in MessageTypes \ {"update_game_state", "update_characters"} :
          HostIgnored(h, type)
    \/ \E h \in Conns : HostMalformed(h)
    \/ \E h \in Conns : HostDisconnect(h)
    \/ \E code \in JoinInputs, characters \in Rosters :
          SetSessionCharacters(code, characters)

Spec == Init /\ [][Next]_vars

(***************************************************************************)
(* The story endpoint: take_action of endpoints/take_action_endpoint.py,   *)
(* ChapterManager of utils.py and GameSettings of models.py.  The endpoint *)
(* keeps no state: a request carries the client's GameState and the        *)
(* answer is computed from it.                                             *)
(***************************************************************************)
\* the defaults of GameSettings
DefaultScenesPerChapter == 3
DefaultChaptersPerArc == 3

\* GameSettings(**d): pydantic fills the fields the client left out with the
\* defaults and takes every int for the others (the model declares no
\* validator)
GameSettings(d) ==
    [scenesPerChapter |-> IF "scenesPerChapter" \in DOMAIN d
                          THEN d.scenesPerChapter ELSE DefaultScenesPerChapter,
     chaptersPerArc |-> IF "chaptersPerArc" \in DOMAIN d
                        THEN d.chaptersPerArc ELSE DefaultChaptersPerArc]

\* the settings a client sends: each of the two fields present or left out
SettingInputs == (0 - 1)..MaxSetting
SettingsDicts ==
    {[playerCount |-> 1]}
    \cup {[playerCount |-> 1, scenesPerChapter |-> k] : k \in SettingInputs}
    \cup {[playerCount |-> 1, chaptersPerArc |-> m] : m \in SettingInputs}
    \cup {[playerCount |-> 1, scenesPerChapter |-> k, chaptersPerArc |-> m] :
             k \in SettingInputs, m \in SettingInputs}

\* a chapters list of n Chapter objects
Chapters(n) == [j \in 1..n |-> [id |-> j - 1]]

\* the choices of a story segment that offers actions (ActionChoice: id and
\* text, the text of the second one empty)
Choices == <<[id |-> 0, text |-> "attack"], [id |-> 1, text |-> ""],
            [id |-> 2, text |-> "flee"]>>

\* storyProgress as far as _get_chosen_action reads it (its last segment):
\* empty, a segment without choices, a segment with three choices
StoryProgresses == {<<>>, <<[choices |-> <<>>]>>, <<[choices |-> Choices]>>}

\* the GameState objects of the requests.  The chapters list has an entry
\* for the current chapter or stops one short of it (with chapter 0 that is
\* the default, the empty list).
GameStates ==
    {[settings |-> GameSettings(d),
      characters |-> SubSeq(Party, 1, n),
      storyProgress |-> sp,
      currentPlayerIndex |-> p,
      chapters |-> Chapters(ch + extra),
      currentChapterIndex |-> ch,
      roundsInCurrentChapter |-> r] :
        d \in SettingsDicts, n \in 0..MaxCharacters, sp \in StoryProgresses,
        p \in 0..(MaxCharacters - 1), extra \in {0, 1},
        ch \in 0..MaxChapterIndex, r \in (0 - 1)..MaxRounds}

\* choiceId and customAction of an ActionRequest: a choice of the last
\* segment, its choice without text, or an id it does not have; no custom
\* text ("") or some
ChoiceInputs == {0, 1, 3}
CustomActions == {"", "charge"}

\* a chapter-end test against a fixed length of three rounds
is_chapter_ending_Fixed(rounds_in_chapter, rounds_per_chapter) ==
    rounds_in_chapter >= DefaultScenesPerChapter

\* a chapter-end test that asks for one round more
is_chapter_ending_Strict(rounds_in_chapter, rounds_per_chapter) ==
    rounds_in_chapter > rounds_per_chapter

\* _is_chapter_ending
is_chapter_ending(rounds_in_chapter, rounds_per_chapter) ==
    rounds_in_chapter >= rounds_per_chapter

\* ChapterManager.calculate_chapter_cycle
calculate_chapter_cycle(chapter_index) == chapter_index % 3

\* a cycle end placed on the first chapter of a cycle
is_cycle_end_First(chapter_index) == calculate_chapter_cycle(chapter_index) = 0

\* ChapterManager.is_cycle_end
is_cycle_end(chapter_index) == calculate_chapter_cycle(chapter_index) = 2

\* _create_story_prompt: which of the three prompts is built
create_story_prompt(gs, should_generate_end_chapter) ==
    IF ~should_generate_end_chapter THEN "mid_chapter"
    ELSE IF is_cycle_end(gs.currentChapterIndex) THEN "cycle_end"
    ELSE "chapter_end"

\* a next player index that is not taken modulo the size of the party
next_player_index_NoWrap(gs) == gs.currentPlayerIndex + 1

\* take_action, "Calculate next player's index"
next_player_index(gs) == (gs.currentPlayerIndex + 1) % Len(gs.characters)

\* what leaves take_action before a prompt is built
Refused(raised, status_code) ==
    [raised |-> raised, status_code |-> status_code, prompt |-> "none", body |-> None]

\* _get_chosen_action: the exception it raises ("none": it returned a text)
\* and the status code of an HTTPException
get_chosen_action(request) ==
    LET story == request.gameState.storyProgress
    IN  IF request.customAction # "" THEN [raised |-> "none", status_code |-> 0]
        ELSE IF story = <<>> THEN [raised |-> "AttributeError", status_code |-> 0]
        ELSE LET choices == story[Len(story)].choices
             IN  IF Len(choices) = 0
                 THEN [raised |-> "HTTPException", status_code |-> 400]
                 ELSE LET found == {j \in 1..Len(choices) :
                                        choices[j].id = request.choiceId}
                      IN  IF found = {} \/ choices[MinOf(found)].text = ""
                          THEN [raised |-> "HTTPException", status_code |-> 400]
                          ELSE [raised |-> "none", status_code |-> 0]

\* take_action up to its first await, the call of generate_text inside the
\* try block: the exception that leaves it before (with the status code of
\* an HTTPException), or ("none") the locals the call goes on with once the
\* text is there: the prompt it built, next_player_idx, current_chapter_idx,
\* rounds_in_chapter and should_generate_end_chapter.
take_action(request) ==
    LET gs == request.gameState
        chosen == get_chosen_action(request)
    IN
    IF gs.currentPlayerIndex >= Len(gs.characters)
    THEN Refused("IndexError", 0)
    ELSE IF chosen.raised # "none"
    THEN Refused(chosen.raised, chosen.status_code)
    ELSE IF gs.currentChapterIndex >= Len(gs.chapters)
    THEN Refused("IndexError", 0)
    ELSE LET rounds_in_chapter == gs.roundsInCurrentChapter + 1
             should_generate_end_chapter ==
                 is_chapter_ending(rounds_in_chapter, gs.settings.scenesPerChapter)
         IN  [raised |-> "none",
              awaits |-> "generate_text",
              prompt |-> create_story_prompt(gs, should_generate_end_chapter),
              next_player_idx |-> next_player_index(gs),
              current_chapter_idx |-> gs.currentChapterIndex,
              rounds_in_chapter |-> rounds_in_chapter,
              should_generate_end_chapter |-> should_generate_end_chapter]

\* the except clause of take_action: whatever is raised inside the try block
\* leaves the call as HTTPException 500
Failed(frame) ==
    [raised |-> "HTTPException", status_code |-> 500, prompt |-> frame.prompt,
     body |-> None]

\* _handle_mid_chapter: the answer.  (generate_appropriate_image and
\* maybe_generate_tts return None without awaiting anything: the requests of
\* the model leave enableImages and enableAITTS at their default False.)
handle_mid_chapter(frame) ==
    [raised |-> "none", status_code |-> 0, prompt |-> frame.prompt,
     body |-> [nextPlayerIndex |-> frame.next_player_idx,
               chapterEnded |-> FALSE,
               roundsInChapter |-> frame.rounds_in_chapter]]

\* _handle_chapter_end, from the return of _generate_next_chapter_actions on:
\* the answer
handle_chapter_end(frame) ==
    [raised |-> "none", status_code |-> 0, prompt |-> frame.prompt,
     body |-> [nextPlayerIndex |-> frame.next_player_idx,
               chapterEnded |-> TRUE,
               nextChapter |-> [id |-> frame.current_chapter_idx + 1],
               roundsInChapter |-> 0,
               chapterCycle |->
                   calculate_chapter_cycle(frame.current_chapter_idx + 1),
               isFreshStart |-> is_cycle_end(frame.current_chapter_idx)]]

\* a client has a GameState to post; the session layer is idle
StoryInit ==
    /\ active_sessions = EmptyDict
    /\ used_codes = {}
    /\ game_sessions = EmptyDict
    /\ pc = [c \in Conns |-> "awaiting"]
    /\ session = [c \in Conns |-> NoSession]
    /\ iter = [c \in Conns |-> 0]
    /\ hung = FALSE
    /\ pending = [c \in Conns |-> None]
    /\ last = Last("init", 0, 0, "none")
    /\ sent = <<>>
    /\ game_state \in GameStates
    /\ call = None
    /\ result = None
    /\ answers = <<>>

\* the answer of the call: it is recorded, with the player whose action it
\* answers, when take_action returned
Answer(r) ==
    /\ result' = r
    /\ call' = None
    /\ answers' = IF r.raised = "none"
                  THEN Append(answers, [player |-> game_state.currentPlayerIndex,
                                        body |-> r.body])
                  ELSE answers

\* POST /take-action with the client's GameState: take_action runs until an
\* exception leaves it or it is suspended in generate_text (line 47)
TakeAction ==
    /\ result = None /\ call = None
    /\ \E choiceId \in ChoiceInputs, customAction \in CustomActions :
          LET r == take_action([gameState |-> game_state, choiceId |-> choiceId,
                                customAction |-> customAction])
          IN  IF r.raised # "none"
              THEN Answer(r)
              ELSE /\ call' = r
                   /\ UNCHANGED <<result, answers>>
    /\ UNCHANGED game_state
    /\ UNCHANGED session_vars

\* generate_text of line 47 returns, or raises (`generated` false).  In the
\* middle of a chapter the call goes through _handle_mid_chapter to its
\* answer; at the end of a chapter it enters _handle_chapter_end and is
\* suspended in the generate_text of the chapter's summary (line 214).
GenerateText ==
    /\ call # None /\ call.awaits = "generate_text"
    /\ \E generated \in BOOLEAN :
          IF ~generated THEN Answer(Failed(call))
          ELSE IF call.should_generate_end_chapter
          THEN /\ call' = [call EXCEPT !.awaits = "chapter_summary"]
               /\ UNCHANGED <<result, answers>>
          ELSE Answer(handle_mid_chapter(call))
    /\ UNCHANGED game_state
    /\ UNCHANGED session_vars

\* the generate_text of the summary returns, or raises: the summary is
\* written into the request's own chapter and the call is suspended in
\* _generate_next_chapter_actions (line 227, its generate_text at line 318)
ChapterSummary ==
    /\ call # None /\ call.awaits = "chapter_summary"
    /\ \E generated \in BOOLEAN :
          IF ~generated THEN Answer(Failed(call))
          ELSE /\ call' = [call EXCEPT !.awaits = "next_chapter_actions"]
               /\ UNCHANGED <<result, answers>>
    /\ UNCHANGED game_state
    /\ UNCHANGED session_vars

\* _generate_next_chapter_actions returns, or raises: _handle_chapter_end
\* builds the answer of the chapter end
NextChapterActions ==
    /\ call # None /\ call.awaits = "next_chapter_actions"
    /\ \E generated \in BOOLEAN :
          IF ~generated THEN Answer(Failed(call))
          ELSE Answer(handle_chapter_end(call))
    /\ UNCHANGED game_state
    /\ UNCHANGED session_vars

\* The client folds the answer into its GameState and posts the next action:
\* the turn passes to nextPlayerIndex, the round count of the chapter becomes
\* roundsInChapter, the story goes on with the segment answered and its
\* choices, and after a chapter end nextChapter is added to the chapters and
\* becomes the current one.  The game is followed for MaxActions actions and up to
\* chapter MaxChapterIndex.
NextRequest ==
    /\ result # None /\ result.raised = "none"
    /\ Len(answers) < MaxActions
    /\ result.body.chapterEnded => result.body.nextChapter.id <= MaxChapterIndex
    /\ game_state' =
          [game_state EXCEPT
              !.currentPlayerIndex = result.body.nextPlayerIndex,
              !.storyProgress = <<[choices |-> Choices]>>,
              !.chapters = IF result.body.chapterEnded
                           THEN Append(@, [id |-> result.body.nextChapter.id])
                           ELSE @,
              !.roundsInCurrentChapter = result.body.roundsInChapter,
              !.currentChapterIndex = IF result.body.chapterEnded
                                      THEN result.body.nextChapter.id ELSE @]
    /\ result' = None
    /\ UNCHANGED <<call, answers>>
    /\ UNCHANGED session_vars

StoryNext ==
    \/ TakeAction
    \/ GenerateText
    \/ ChapterSummary
    \/ NextChapterActions
    \/ NextRequest

StorySpec == StoryInit /\ [][StoryNext]_vars

\* A game at its start: the turn, the chapter and the round count have the
\* defaults of GameState.
PlayInit ==
    /\ StoryInit
    /\ game_state.currentPlayerIndex = 0
    /\ game_state.currentChapterIndex = 0
    /\ game_state.roundsInCurrentChapter = 0

PlaySpec == PlayInit /\ [][StoryNext]_vars

(***************************************************************************)
(* Properties.                                                             *)
(***************************************************************************)
Sessions == DOMAIN game_sessions
\* the session objects whose host handler is serving
HostedSessions == {h \in Sessions : pc[h] \in HostStates}
SentTo(msgs, to, type) == {j \in 1..Len(msgs) : msgs[j].to = to /\ msgs[j].type = type}

\* C1: every live session has its own code: each session whose host is being
\* served is the one session the registry holds under that session's code,
\* so no two of them share a code and create_session never hands out the
\* code of a live session.
C1_LiveSessionsHaveDistinctCodes ==
    /\ \A h \in HostedSessions :
          get_session(active_sessions, game_sessions[h].session_code) = h
    /\ \A code \in DOMAIN active_sessions :
          /\ active_sessions[code] \in HostedSessions
          /\ game_sessions[active_sessions[code]].session_code = code

\* two sessions are live at once
C1_Witness ==
    \E h1 \in HostedSessions, h2 \in HostedSessions :
        /\ h1 # h2
        /\ last.op = "create_session" /\ last.conn = h2 /\ last.raised = "none"

\* C2: in every session the assignments are injective: no two connections
\* hold the same character index.
C2_AssignmentsInjective ==
    \A s \in Sessions :
        \A c1 \in DOMAIN game_sessions[s].assigned_characters,
           c2 \in DOMAIN game_sessions[s].assigned_characters :
            c1 # c2 => game_sessions[s].assigned_characters[c1]
                         # game_sessions[s].assigned_characters[c2]

\* two players of one session hold a character each, the second of them
\* since the last step
C2_Witness ==
    \E s \in Sessions :
        /\ Cardinality(DOMAIN game_sessions[s].assigned_characters) = 2
        /\ last.op = "select_character" /\ last.raised = "none"
        /\ last.conn \in DOMAIN game_sessions[s].assigned_characters

\* the scene dict of the host that a stored scene was built from
SceneDictOf(scene) == CHOOSE d \in SceneDicts : StoryScene(d) = scene

\* C3: a player_action of connection c is forwarded to the host exactly when
\* c holds a character and that character is the active one of the current
\* scene; in every other case it is dropped and no exception is raised.
C3_RouteActionForwardsIffTurn ==
    last.op = "player_action" /\ session[last.conn] # NoSession =>
        LET c == last.conn
            gs == game_sessions[session[c]]
            turn == /\ c \in DOMAIN gs.assigned_characters
                    /\ gs.current_scene # None
                    /\ gs.assigned_characters[c]
                         = SceneDictOf(gs.current_scene).activeCharacterIndex
        IN  /\ (SentTo(sent, gs.host_websocket, "player_action") # {}) <=> turn
            /\ last.raised = "none"

\* a step in which disconnect_player(c) ran: c's handler was a player's and
\* WebSocketDisconnect, raised by receive_json or by a send of the handler,
\* ended it
DisconnectPlayerStep(c) ==
    /\ pc[c] \in PlayerStates
    /\ last'.conn = c
    /\ last'.raised = "WebSocketDisconnect"

\* C4: disconnect_player(c) takes c out of player_connections and out of
\* assigned_characters and changes nothing else: the other connections keep
\* their order and their assignments, and the roster, the scene, the host,
\* the other sessions and the registry stay as they were.
C4_DisconnectRemovesOnlyOwnEntries ==
    [][\A c \in Conns :
          DisconnectPlayerStep(c) =>
            LET s == session[c]
                g == game_sessions[s]
                g2 == game_sessions'[s]
            IN  /\ g2.player_connections
                     = SelectSeq(g.player_connections, LAMBDA x : x # c)
                /\ DOMAIN g2.assigned_characters
                     = (DOMAIN g.assigned_characters) \ {c}
                /\ \A d \in DOMAIN g2.assigned_characters :
                      g2.assigned_characters[d] = g.assigned_characters[d]
                /\ g2.characters = g.characters
                /\ g2.current_scene = g.current_scene
                /\ g2.host_websocket = g.host_websocket
                /\ g2.session_code = g.session_code
                /\ \A o \in Sessions \ {s} : game_sessions'[o] = game_sessions[o]
                /\ DOMAIN game_sessions' = Sessions
                /\ active_sessions' = active_sessions
                /\ used_codes' = used_codes
                /\ \A d \in Conns \ {c} : pc'[d] = pc[d] /\ session'[d] = session[d]
      ]_vars

\* the first of two players has disconnected and the second, who holds a
\* character, is still there
C4_Witness ==
    /\ last.op = "disconnect" /\ last.conn \notin Sessions
    /\ session[last.conn] # NoSession
    /\ last.arg = 0
    /\ LET gs == game_sessions[session[last.conn]]
       IN  /\ Len(gs.player_connections) = 1
           /\ DOMAIN gs.assigned_characters = Elems(gs.player_connections)

\* C5: every assignment of every session is an index of the session's
\* roster, held by a connection of player_connections.
C5_AssignmentsWithinRosterAndMembers ==
    \A s \in Sessions :
        \A c \in DOMAIN game_sessions[s].assigned_characters :
            /\ 0 <= game_sessions[s].assigned_characters[c]
            /\ game_sessions[s].assigned_characters[c] < Len(game_sessions[s].characters)
            /\ c \in Elems(game_sessions[s].player_connections)

\* a step that handles select_character(i) of player c
SelectStep(c, i) ==
    /\ pc[c] = "player"
    /\ last'.op = "select_character"
    /\ last'.conn = c
    /\ last'.arg = i

\* everything but the record of the step is as before
StateUnchanged ==
    UNCHANGED <<active_sessions, used_codes, game_sessions, pc, session, iter,
                hung, pending>>

\* the step in which the send of the reply of assign_character to c is over
ReplyStep(c) ==
    /\ pc[c] = "assigning"
    /\ last'.op = "select_reply"
    /\ last'.conn = c

\* the registry, the sessions and every handler but c's are as before
OthersUnchanged(c) ==
    /\ UNCHANGED <<active_sessions, used_codes, game_sessions, session, iter, hung>>
    /\ \A d \in Conns \ {c} : pc'[d] = pc[d]

\* C6: select_character(i) for an index some connection holds is answered to
\* c with the character-taken error and nothing else is done: handling the
\* message changes no session and starts the send of the error to c; when
\* that send is over the host has not been told of an assignment, nobody's
\* assignment has changed, and if the send succeeded c's handler is back in
\* its loop with the whole state as before.
C6_TakenIndexIsRefused ==
    [][\A c \in Conns :
          /\ \A i \in CharacterIndexInputs :
                SelectStep(c, i)
                /\ i \in DictValues(game_sessions[session[c]].assigned_characters) =>
                    /\ pending'[c].to = c /\ pending'[c].type = "error"
                    /\ pending'[c].data.message = TakenMessage
                    /\ sent' = <<>>
                    /\ pc'[c] = "assigning"
                    /\ OthersUnchanged(c)
          /\ ReplyStep(c) /\ pending[c].type = "error" =>
                LET g == game_sessions[session[c]]
                    g2 == game_sessions'[session[c]]
                IN  /\ Len(sent') >= 1
                    /\ sent'[1].to = c /\ sent'[1].type = "error"
                    /\ sent'[1].data = pending[c].data
                    /\ \A j \in 1..Len(sent') :
                          sent'[j].type # "player_character_assigned"
                    /\ \A d \in DOMAIN g2.assigned_characters :
                          /\ d \in DOMAIN g.assigned_characters
                          /\ g2.assigned_characters[d] = g.assigned_characters[d]
                    /\ last'.raised = "none" =>
                          /\ Len(sent') = 1
                          /\ pc'[c] = "player"
                          /\ OthersUnchanged(c)
      ]_vars

\* a player was refused a character that another connection holds
C6_Witness ==
    /\ last.op = "select_reply" /\ last.raised = "none"
    /\ pc[last.conn] = "player"
    /\ Len(sent) = 1 /\ sent[1].type = "error" /\ sent[1].data.message = TakenMessage
    /\ sent[1].outcome = "ok"
    /\ \E d \in DOMAIN game_sessions[session[last.conn]].assigned_characters :
          d # last.conn

\* C7: select_character(i) for an index outside the roster is answered to c
\* with the invalid-character error: handling the message starts the send of
\* that error to c and changes no session, and once the error is sent the
\* whole state is as before.
C7_InvalidIndexIsRefused ==
    [][\A c \in Conns, i \in CharacterIndexInputs :
          SelectStep(c, i)
          /\ (i < 0 \/ i >= Len(game_sessions[session[c]].characters)) =>
              /\ pending'[c].to = c /\ pending'[c].type = "error"
              /\ pending'[c].data.message = InvalidMessage
              /\ sent' = <<>>
              /\ OthersUnchanged(c)
      ]_vars

\* a step that handles a first message join_session(code) of connection c
JoinStep(c, code) ==
    /\ pc[c] = "awaiting"
    /\ last'.op = "join_session"
    /\ last'.conn = c
    /\ last'.arg = code

\* C8: a first message join_session whose code names no registered session
\* is answered with join_session_error, the handler ends, and neither the
\* registry nor any session object changes.
C8_UnknownCodeIsRefused ==
    [][\A c \in Conns, code \in JoinInputs :
          JoinStep(c, code) /\ code \notin DOMAIN active_sessions =>
            /\ Len(sent') = 1
            /\ sent'[1].to = c /\ sent'[1].type = "join_session_error"
            /\ pc' = [pc EXCEPT ![c] = "closed"]
            /\ UNCHANGED <<active_sessions, used_codes, game_sessions, session,
                           iter, hung>>
      ]_vars

\* a join with the unpadded code "1" was refused while session "0001" is live
C8_Witness ==
    /\ last.op = "join_session" /\ last.raised = "return"
    /\ last.arg = <<1>>
    /\ Format04d(1) \in DOMAIN active_sessions
    /\ pc[last.conn] = "closed"
    /\ sent[1].type = "join_session_error" /\ sent[1].outcome = "ok"

\* C9: when the host's connection disconnects its session leaves the
\* registry; a code comes (back) into the registry only by a create_session
\* that returns it; and a join_session with the code of a session whose host
\* is gone, while the code is out of the registry, gets join_session_error.
C9_HostDisconnectRemovesSession ==
    [][/\ \A h \in Conns :
            /\ pc[h] \in HostStates /\ last'.conn = h
            /\ last'.raised = "WebSocketDisconnect"
            =>
               /\ pc'[h] = "closed"
               /\ get_session(active_sessions', game_sessions[h].session_code)
                    = NoSession
       /\ \A code \in (DOMAIN active_sessions') \ DOMAIN active_sessions :
            /\ last'.op = "create_session"
            /\ last'.conn \notin Sessions
            /\ game_sessions'[last'.conn].session_code = code
       /\ \A c \in Conns, h \in Sessions :
            /\ pc[h] = "closed"
            /\ JoinStep(c, game_sessions[h].session_code)
            /\ game_sessions[h].session_code \notin DOMAIN active_sessions
            => sent'[1].type = "join_session_error" /\ pc'[c] = "closed"
      ]_vars

\* the host of a session with a player has disconnected and the session's
\* code is out of the registry
C9_Witness ==
    /\ last.op = "disconnect" /\ last.conn \in Sessions
    /\ pc[last.conn] = "closed"
    /\ Len(game_sessions[last.conn].player_connections) > 0
    /\ game_sessions[last.conn].session_code \notin DOMAIN active_sessions

\* C10: once the host of a session has disconnected, the session's code is
\* free: it is among the codes generate_session_code can return.
C10_RemovedCodeIsFreed ==
    last.op = "disconnect" /\ last.conn \in Sessions =>
        /\ game_sessions[last.conn].session_code \notin DOMAIN active_sessions
        /\ game_sessions[last.conn].session_code \in generate_session_code(used_codes)

\* C11: when a player's connection disconnects, that connection leaves
\* player_connections and assigned_characters and nothing else changes: the
\* registry is as before and every other handler is where it was; the last
\* thing the step does is to send the host player_left with the number of
\* players left after the removal, and the state after the step is the same
\* whether that send succeeds or fails.
C11_PlayerDisconnectCleansUpAndNotifies ==
    [][\A c \in Conns :
          DisconnectPlayerStep(c) =>
            LET s == session[c]
                g == game_sessions[s]
                g2 == game_sessions'[s]
                m == sent'[Len(sent')]
            IN  /\ c \notin Elems(g2.player_connections)
                /\ c \notin DOMAIN g2.assigned_characters
                /\ Elems(g2.player_connections) = Elems(g.player_connections) \ {c}
                /\ DOMAIN g2.assigned_characters \ {c}
                     = (DOMAIN g.assigned_characters) \ {c}
                /\ active_sessions' = active_sessions
                /\ pc' = [pc EXCEPT ![c] = "closed"]
                /\ Len(sent') >= 1
                /\ m.to = g.host_websocket /\ m.type = "player_left"
                /\ m.data.player_count = Len(g2.player_connections)
                /\ m.data.player_count = Len(g.player_connections) - 1
                /\ \A j \in 1..(Len(sent') - 1) : sent'[j].type # "player_left"
                /\ UNCHANGED <<used_codes, session, iter, hung>>
                /\ \A o \in Sessions \ {s} : game_sessions'[o] = game_sessions[o]
      ]_vars

\* a player of a live session with two players has disconnected, the
\* player_left for the host failed to be sent, and the session is still
\* registered with the other player in it
C11_Witness ==
    /\ last.op = "disconnect" /\ last.conn \notin Sessions
    /\ session[last.conn] # NoSession
    /\ Len(sent) = 1 /\ sent[1].type = "player_left"
    /\ sent[1].outcome = "Exception" /\ sent[1].data.player_count = 1
    /\ LET gs == game_sessions[session[last.conn]]
       IN  /\ Len(gs.player_connections) = 1
           /\ get_session(active_sessions, gs.session_code) = session[last.conn]
           /\ pc[gs.player_connections[1]] = "player"

\* C12: an exception other than WebSocketDisconnect that ends the handling of
\* a message takes the session out of the registry exactly when the handler
\* is the session's host; when it is a player's (or has no session), that
\* handler ends and nothing else: the registry is as before and every other
\* handler is where it was.
C12_OtherExceptionTearsDownIffHost ==
    [][\A c \in Conns :
          last'.conn = c /\ last'.raised = "Exception" /\ pc[c] # "closed" =>
            IF pc[c] \in HostStates
            THEN /\ get_session(active_sessions', game_sessions'[c].session_code)
                      = NoSession
                 /\ pc' = [pc EXCEPT ![c] = "closed"]
            ELSE /\ active_sessions' = active_sessions
                 /\ pc' = [pc EXCEPT ![c] = "closed"]
                 /\ UNCHANGED <<used_codes, session, iter, hung>>
                 /\ \A j \in 1..Len(sent') : sent'[j].type # "player_left"
      ]_vars

\* an exception has ended the handler of a player who holds a character,
\* while the session is registered, its host is served and another player's
\* handler is running
C12_Witness ==
    /\ last.raised = "Exception"
    /\ session[last.conn] # NoSession /\ last.conn \notin Sessions
    /\ pc[last.conn] = "closed"
    /\ LET gs == game_sessions[session[last.conn]]
       IN  /\ get_session(active_sessions, gs.session_code) = session[last.conn]
           /\ pc[gs.host_websocket] \in HostStates
           /\ last.conn \in DOMAIN gs.assigned_characters
           /\ \E d \in Elems(gs.player_connections) :
                  d # last.conn /\ pc[d] = "player"

\* the connections that the loop `loop` of host h, suspended on a send, has
\* still to take from its iterator and send to
Remaining(h, loop) ==
    LET gs == game_sessions[h]
    IN  IF pc[h] = loop
        THEN {gs.player_connections[j] :
                j \in {k \in (iter[h] + 1)..Len(gs.player_connections) :
                          Qualifies(gs, gs.player_connections[k], loop)}}
        ELSE {}

\* the connections that a step of host h's handler attempts to send `type` to
Recipients(h, type) ==
    IF last'.conn = h
    THEN {sent'[j].to : j \in {k \in 1..Len(sent') : sent'[k].type = type}}
    ELSE {}

\* C13: update_game_state stores the new scene and attempts to send it to
\* every connection that holds a character.  The step that handles the
\* message stores the scene and leaves every holder either sent to or still
\* to be reached by the loop; every later step, whatever the outcome of the
\* send before it, leaves every connection the loop has still to reach
\* either sent the stored scene, or still to be reached, or gone from
\* player_connections; and the host's handler goes on.
C13_UpdateGameStateReachesEveryHolder ==
    [][\A h \in Sessions :
          /\ pc[h] = "host" /\ last'.op = "update_game_state" /\ last'.conn = h =>
                LET g2 == game_sessions'[h]
                IN  /\ \E scene \in SceneDicts : g2.current_scene = StoryScene(scene)
                    /\ pc'[h] \in {"host", "bcast_state"}
                    /\ \A d \in Elems(g2.player_connections) :
                          d \in DOMAIN g2.assigned_characters =>
                            \/ d \in Recipients(h, "game_state_update")
                            \/ d \in Remaining(h, "bcast_state")'
          /\ pc[h] = "bcast_state" =>
                /\ pc'[h] \in {"host", "bcast_state"}
                /\ \A j \in 1..Len(sent') :
                      sent'[j].type = "game_state_update" /\ last'.conn = h =>
                         sent'[j].data.newScene = game_sessions'[h].current_scene
                /\ \A d \in Remaining(h, "bcast_state") :
                      \/ d \in Recipients(h, "game_state_update")
                      \/ d \in Remaining(h, "bcast_state")'
                      \/ d \notin Elems(game_sessions'[h].player_connections)
      ]_vars

\* C14: update_characters replaces the roster by the list it is given and
\* sends the new roster to every player connection that holds no character
\* and to none that holds one; assigned_characters, player_connections and
\* current_scene are as before.  The step that handles the message leaves
\* every connection without a character either sent to or still to be reached
\* by the loop; every later step leaves every connection the loop has still
\* to reach either sent the roster, or still to be reached, or gone from
\* player_connections, or holding a character.
C14_UpdateCharactersReachesEveryUnassigned ==
    [][\A h \in Sessions :
          /\ pc[h] = "host" /\ last'.op = "update_characters" /\ last'.conn = h =>
                LET g == game_sessions[h]
                    g2 == game_sessions'[h]
                IN  /\ g2.characters \in Rosters
                    /\ g2.assigned_characters = g.assigned_characters
                    /\ g2.player_connections = g.player_connections
                    /\ g2.current_scene = g.current_scene
                    /\ \A d \in Elems(g2.player_connections) :
                          d \notin DOMAIN g2.assigned_characters =>
                            \/ d \in Recipients(h, "available_characters")
                            \/ d \in Remaining(h, "bcast_chars")'
          /\ pc[h] \in {"host", "bcast_chars"} /\ last'.conn = h =>
                \A j \in 1..Len(sent') :
                    sent'[j].type = "available_characters" =>
                      /\ sent'[j].to \notin DOMAIN game_sessions'[h].assigned_characters
                      /\ Len(sent'[j].data.characters) = Len(game_sessions'[h].characters)
                      /\ \A k \in 1..Len(sent'[j].data.characters) :
                            sent'[j].data.characters[k].name
                              = game_sessions'[h].characters[k].name
          /\ pc[h] = "bcast_chars" =>
                /\ pc'[h] \in {"host", "bcast_chars"}
                /\ \A d \in Remaining(h, "bcast_chars") :
                      \/ d \in Recipients(h, "available_characters")
                      \/ d \in Remaining(h, "bcast_chars")'
                      \/ d \notin Elems(game_sessions'[h].player_connections)
                      \/ d \in DOMAIN game_sessions'[h].assigned_characters
      ]_vars

\* C15: a join_session with the code of a registered session appends the
\* connection at the end of the session's player_connections, the others
\* keeping their places, and first of all sends the connection
\* available_characters: the roster in its order, the character at index i
\* flagged assigned exactly when some connection holds i.
C15_ConnectPlayerAppendsAndSendsRoster ==
    [][\A c \in Conns, code \in JoinInputs :
          JoinStep(c, code) /\ get_session(active_sessions, code) # NoSession =>
            LET s == get_session(active_sessions, code)
                g == game_sessions[s]
                g2 == game_sessions'[s]
                m == sent'[1]
            IN  /\ g2.player_connections = Append(g.player_connections, c)
                /\ g2.player_connections[Len(g2.player_connections)] = c
                /\ session'[c] = s
                /\ g2.assigned_characters = g.assigned_characters
                /\ g2.characters = g.characters
                /\ Len(sent') >= 1
                /\ m.to = c /\ m.type = "available_characters"
                /\ Len(m.data.characters) = Len(g.characters)
                /\ \A k \in 1..Len(g.characters) :
                      /\ m.data.characters[k].name = g.characters[k].name
                      /\ m.data.characters[k].assigned
                           <=> \E d \in DOMAIN g.assigned_characters :
                                   g.assigned_characters[d] = k - 1
      ]_vars

\* a second player has joined a session with a roster of two of which the
\* first player holds one: the message flags that one and not the other
C15_Witness ==
    /\ last.op = "join_session" /\ last.raised = "none"
    /\ LET gs == game_sessions[session[last.conn]]
       IN  /\ Len(gs.player_connections) = 2
           /\ gs.player_connections[2] = last.conn
           /\ DOMAIN gs.assigned_characters = {gs.player_connections[1]}
    /\ sent[1].type = "available_characters" /\ sent[1].outcome = "ok"
    /\ Len(sent[1].data.characters) = 2
    /\ \E k \in 1..2 : sent[1].data.characters[k].assigned
    /\ \E k \in 1..2 : ~sent[1].data.characters[k].assigned

\* the step that ends the send of the game state in assign_character of c
NotifyStep(c) ==
    /\ pc[c] = "pushing"
    /\ last'.op = "select_notify"
    /\ last'.conn = c

\* the last message of the step tells the host of session s that c holds
\* the index it holds, with c's place in player_connections counted from 0
HostToldOfAssignment(c, s) ==
    /\ Len(sent') >= 1
    /\ LET g2 == game_sessions'[s]
           m == sent'[Len(sent')]
       IN  /\ m.to = g2.host_websocket /\ m.type = "player_character_assigned"
           /\ \E j \in 1..Len(g2.player_connections) :
                 g2.player_connections[j] = c /\ m.data.player_index = j - 1
           /\ m.data.character_index = g2.assigned_characters[c]
           /\ Cardinality(SentTo(sent', g2.host_websocket,
                                 "player_character_assigned")) = 1

\* C16: a select_character(i) of player c for a free index of the roster
\* records i for c and starts the send of the confirmation with the
\* character at i; when the confirmation is sent the assignment stays,
\* nothing is raised, and before c's handler is back in its loop the host is
\* notified with c's place in player_connections (counted from 0) and i,
\* whether or not that notification can be sent.
C16_AssignConfirmsAndNotifiesHost ==
    [][\A c \in Conns :
          /\ \A i \in CharacterIndexInputs :
                /\ SelectStep(c, i)
                /\ i \notin DictValues(game_sessions[session[c]].assigned_characters)
                /\ 0 <= i /\ i < Len(game_sessions[session[c]].characters)
                =>
                  LET g == game_sessions[session[c]]
                      g2 == game_sessions'[session[c]]
                  IN  /\ c \in DOMAIN g2.assigned_characters
                      /\ g2.assigned_characters[c] = i
                      /\ \A d \in (DOMAIN g.assigned_characters) \ {c} :
                            /\ d \in DOMAIN g2.assigned_characters
                            /\ g2.assigned_characters[d] = g.assigned_characters[d]
                      /\ pending'[c].to = c
                      /\ pending'[c].type = "character_assigned"
                      /\ pending'[c].data.character = g.characters[i + 1]
                      /\ UNCHANGED <<active_sessions, used_codes, session, iter, hung>>
          /\ /\ ReplyStep(c) /\ pending[c].type = "character_assigned"
             /\ sent'[1].outcome = "ok"
             =>
               /\ sent'[1].to = c /\ sent'[1].type = "character_assigned"
               /\ sent'[1].data = pending[c].data
               /\ game_sessions' = game_sessions
               /\ last'.raised = "none"
               /\ pc'[c] \in {"player", "pushing"}
               /\ pc'[c] = "player" => HostToldOfAssignment(c, session[c])
               /\ OthersUnchanged(c)
          /\ NotifyStep(c) =>
               /\ game_sessions' = game_sessions
               /\ last'.raised = "none"
               /\ pc'[c] = "player"
               /\ HostToldOfAssignment(c, session[c])
               /\ OthersUnchanged(c)
      ]_vars

\* C17: the snapshots of a session go out in the order of the host's
\* update_game_state messages.  The stored scene changes only when the
\* host's handler takes an update_game_state, which it does only after the
\* broadcast of the one before has run to its end; and every
\* game_state_update that any step sends, in a broadcast or in the push
\* that follows a player's assignment while a broadcast is suspended,
\* carries the scene stored at that moment.  So no player is sent the scene
\* of an earlier update once a later update is stored.
C17_SnapshotsFollowUpdateOrder ==
    [][/\ \A h \in Sessions :
            game_sessions'[h].current_scene # game_sessions[h].current_scene =>
               /\ last'.op = "update_game_state" /\ last'.conn = h
               /\ pc[h] = "host"
               /\ game_sessions'[h].current_scene # None
       /\ \A j \in 1..Len(sent') :
            sent'[j].type = "game_state_update" =>
               /\ session'[sent'[j].to] # NoSession
               /\ session'[last'.conn] = session'[sent'[j].to]
               /\ sent'[j].data.newScene
                    = game_sessions'[session'[sent'[j].to]].current_scene
               /\ sent'[j].to
                    \in DOMAIN game_sessions'[session'[sent'[j].to]].assigned_characters
      ]_vars

\* a player has been assigned a character and pushed the stored scene while
\* the host's broadcast of that scene is suspended on a send to the other
\* player
C17_Witness ==
    /\ last.op = "select_reply" /\ last.raised = "none"
    /\ session[last.conn] # NoSession
    /\ pc[session[last.conn]] = "bcast_state"
    /\ SentTo(sent, last.conn, "game_state_update") # {}
    /\ \A j \in SentTo(sent, last.conn, "game_state_update") :
          sent[j].data.newScene = game_sessions[session[last.conn]].current_scene
    /\ Remaining(session[last.conn], "bcast_state") = {last.conn}

\* C18: an update_game_state that comes while no connection holds a
\* character stores the scene and sends nothing; and when the confirmation
\* of a select_character of player c is sent, c is sent the stored scene as
\* game_state_update right after it when a scene is stored, and no
\* game_state_update when none is stored, the assignment staying recorded
\* and nothing being raised in both cases.
C18_StoredSceneIsPushedOnAssignment ==
    [][/\ \A h \in Sessions :
            /\ pc[h] = "host" /\ last'.op = "update_game_state" /\ last'.conn = h
            /\ DOMAIN game_sessions[h].assigned_characters = {}
            => /\ \E scene \in SceneDicts :
                     game_sessions'[h].current_scene = StoryScene(scene)
               /\ sent' = <<>>
               /\ pc'[h] = "host"
       /\ \A c \in Conns :
            /\ ReplyStep(c) /\ pending[c].type = "character_assigned"
            /\ sent'[1].outcome = "ok"
            =>
              LET g == game_sessions[session[c]]
                  g2 == game_sessions'[session[c]]
                  pushes == {j \in 1..Len(sent') : sent'[j].type = "game_state_update"}
              IN  /\ c \in DOMAIN g2.assigned_characters
                  /\ g2.assigned_characters = g.assigned_characters
                  /\ g2.current_scene = g.current_scene
                  /\ last'.raised = "none"
                  /\ IF g.current_scene = None
                     THEN pushes = {} /\ pc'[c] = "player"
                     ELSE /\ pushes = {2}
                          /\ sent'[2].to = c
                          /\ sent'[2].data.newScene = g.current_scene
                          /\ pc'[c] = "pushing"
      ]_vars

\* the host has stored a scene, and the only player that holds a character
\* has just been confirmed it and been sent the scene
C18_Witness ==
    /\ last.op = "select_reply" /\ last.raised = "none"
    /\ session[last.conn] # NoSession
    /\ pc[session[last.conn]] = "host"
    /\ pc[last.conn] = "pushing"
    /\ LET gs == game_sessions[session[last.conn]]
       IN  /\ DOMAIN gs.assigned_characters = {last.conn}
           /\ gs.current_scene # None
           /\ Len(sent) = 2
           /\ sent[1].type = "character_assigned"
           /\ sent[2].type = "game_state_update" /\ sent[2].to = last.conn
           /\ sent[2].outcome = "ok"
           /\ sent[2].data.newScene = gs.current_scene

\* C19: a player_action of a player whose character is the active one of
\* the current scene makes at most one player_action go to the host, and
\* whether that send succeeds or fails nothing is sent to the player, the
\* player's handler goes on and the state is as before.
C19_InTurnActionForwardedAtMostOnce ==
    [][\A c \in Conns :
          /\ pc[c] = "player"
          /\ last'.op = "player_action" /\ last'.conn = c
          /\ c \in DOMAIN game_sessions[session[c]].assigned_characters
          /\ game_sessions[session[c]].current_scene # None
          /\ game_sessions[session[c]].assigned_characters[c]
               = SceneDictOf(game_sessions[session[c]].current_scene).activeCharacterIndex
          =>
            /\ Cardinality(SentTo(sent', game_sessions[session[c]].host_websocket,
                                  "player_action")) <= 1
            /\ \A j \in 1..Len(sent') : sent'[j].to # c
            /\ last'.raised = "none"
            /\ StateUnchanged
      ]_vars

\* the message types that the branch of the loop for a handler in state
\* `role` names
Recognized(role) ==
    IF role = "host" THEN {"update_game_state", "update_characters"}
    ELSE {"player_action", "select_character"}

\* C20: a message in the loop whose type the branch for the handler's role
\* does not name is passed over: nothing is sent, nothing is raised, the
\* registry, the sessions and every handler, the receiving one included, are
\* as before, so the handler takes its next message in the same role.
C20_UnrecognizedTypeIsIgnored ==
    [][\A c \in Conns :
          /\ pc[c] \in {"host", "player", "norole"}
          /\ last'.conn = c
          /\ last'.op \in MessageTypes \ Recognized(pc[c])
          =>
            /\ StateUnchanged
            /\ sent' = <<>>
            /\ last'.raised = "none"
      ]_vars

\* the host of a registered session with a player has been sent a
\* player_action and its handler is still serving
C20_Witness ==
    /\ last.op = "player_action" /\ last.raised = "none"
    /\ last.conn \in Sessions
    /\ pc[last.conn] = "host"
    /\ get_session(active_sessions, game_sessions[last.conn].session_code) = last.conn
    /\ Len(game_sessions[last.conn].player_connections) > 0
    /\ sent = <<>>

\* C21: a message of the other role's type (select_character or
\* player_action to a host's handler, update_game_state or update_characters
\* to a player's) is reported to the connection it came from and to no
\* other, and changes nothing.
C21_WrongRoleIsReportedToSender ==
    [][\A c \in Conns :
          /\ pc[c] \in {"host", "player"}
          /\ last'.conn = c
          /\ last'.op \in Recognized(IF pc[c] = "host" THEN "player" ELSE "host")
          =>
            /\ Len(sent') >= 1
            /\ \A j \in 1..Len(sent') : sent'[j].to = c
            /\ StateUnchanged
      ]_vars

\* take_action has answered the request
Answered == result # None /\ result.raised = "none"

\* C22: the chapter ends with an action exactly when the rounds completed
\* in it, this action included, are at least the scenesPerChapter of the
\* request's settings, which is 3 when the client leaves the setting out:
\* the answer says chapterEnded, and the chapter-end prompt is built, in
\* that case and in no other.
C22_ChapterEndsAtConfiguredLength ==
    /\ GameSettings([playerCount |-> 1]).scenesPerChapter = 3
    /\ \A k \in SettingInputs :
          GameSettings([playerCount |-> 1, scenesPerChapter |-> k]).scenesPerChapter = k
    /\ Answered =>
          LET completed == game_state.roundsInCurrentChapter + 1
              ending == completed >= game_state.settings.scenesPerChapter
          IN  /\ result.body.chapterEnded <=> ending
              /\ (result.prompt = "mid_chapter") <=> ~ending

\* with scenesPerChapter 2, the second round of a chapter has ended it
C22_Witness ==
    /\ Answered
    /\ game_state.settings.scenesPerChapter = 2
    /\ game_state.roundsInCurrentChapter = 1
    /\ result.body.chapterEnded

\* an answer that ends a chapter, to a request whose settings and counters
\* are positive lengths and non-negative counts
ChapterEndAnswered ==
    /\ Answered
    /\ result.body.chapterEnded
    /\ game_state.settings.scenesPerChapter >= 1
    /\ game_state.settings.chaptersPerArc >= 1
    /\ game_state.roundsInCurrentChapter >= 0

\* C23: the cycle position is periodic in the cycle length.  When an action
\* ends chapter i of a game whose chaptersPerArc is m, the cycle position
\* answered for the next chapter is also that of the chapter m further on,
\* and chapter i + m ends a cycle exactly when the answer says chapter i
\* does.
C23_CyclePositionIsPeriodic ==
    ChapterEndAnswered =>
        LET i == game_state.currentChapterIndex
            m == game_state.settings.chaptersPerArc
        IN  /\ calculate_chapter_cycle(i + 1 + m) = result.body.chapterCycle
            /\ is_cycle_end(i + m) <=> result.body.isFreshStart

\* C24: when an action ends chapter i of a game whose chaptersPerArc is m,
\* the arc ends with it exactly when i mod m = m - 1: that decides the
\* prompt built and the isFreshStart of the answer.
C24_ArcEndsAtConfiguredLength ==
    ChapterEndAnswered =>
        LET i == game_state.currentChapterIndex
            m == game_state.settings.chaptersPerArc
            ending == (i % m = m - 1)
        IN  /\ result.body.isFreshStart <=> ending
            /\ (result.prompt = "cycle_end") <=> ending

\* C25: take_action takes no chapter-end or arc-end decision from a
\* scenesPerChapter or chaptersPerArc below 1 or from a negative
\* roundsInCurrentChapter: such a request is refused before a prompt is
\* built, so no call for it is ever suspended or answered with one.
C25_InvalidSettingsAreRejected ==
    call # None \/ (result # None /\ result.prompt # "none") =>
        /\ game_state.settings.scenesPerChapter >= 1
        /\ game_state.settings.chaptersPerArc >= 1
        /\ game_state.roundsInCurrentChapter >= 0

\* C26: remove_session and disconnect_player are idempotent.  In every state
\* the program reaches, removing a code that is not registered leaves the
\* registry as it is and removing a code twice gives what removing it once
\* gives; and for every session object, disconnect_player of a connection
\* that is not in player_connections leaves the object as it is, and a
\* second disconnect_player of a connection changes nothing after the
\* first.
C26_RemovalsAreIdempotent ==
    /\ \A code \in CodeSpace :
          /\ code \notin DOMAIN active_sessions =>
                remove_session(active_sessions, code) = active_sessions
          /\ remove_session(remove_session(active_sessions, code), code)
               = remove_session(active_sessions, code)
          /\ code \notin DOMAIN remove_session(active_sessions, code)
    /\ \A s \in Sessions, ws \in Conns :
          /\ ws \notin Elems(game_sessions[s].player_connections) =>
                disconnect_player(game_sessions[s], ws) = game_sessions[s]
          /\ disconnect_player(disconnect_player(game_sessions[s], ws), ws)
               = disconnect_player(game_sessions[s], ws)
          /\ ws \notin Elems(disconnect_player(game_sessions[s], ws).player_connections)

\* the host of a session has disconnected after one of its two players: the
\* session's code is out of the registry, the player that left is out of
\* player_connections, and the other player is in it
C26_Witness ==
    /\ last.op = "disconnect" /\ last.conn \in Sessions
    /\ game_sessions[last.conn].session_code \notin DOMAIN active_sessions
    /\ Len(game_sessions[last.conn].player_connections) = 1
    /\ \E d \in Conns :
          /\ session[d] = last.conn /\ d # last.conn
          /\ pc[d] = "closed"
          /\ d \notin Elems(game_sessions[last.conn].player_connections)

\* the connections of session object s: its host and its players
Members(s) == {game_sessions[s].host_websocket}
              \cup Elems(game_sessions[s].player_connections)

\* C27: the host of a session is not among the session's players, and no
\* connection is host or player of two sessions.
C27_RolesAndSessionsAreDisjoint ==
    /\ \A s \in Sessions :
          game_sessions[s].host_websocket
            \notin Elems(game_sessions[s].player_connections)
    /\ \A s1 \in Sessions, s2 \in Sessions :
          /\ s1 # s2 => Members(s1) \cap Members(s2) = {}
          /\ game_sessions[s1].session_code = game_sessions[s2].session_code
               => s1 = s2
    /\ \A s \in Sessions :
          \A c \in Elems(game_sessions[s].player_connections) : session[c] = s

\* two sessions exist side by side and a player has just joined one of them
C27_Witness ==
    /\ Cardinality(Sessions) = 2
    /\ \A s \in Sessions : pc[s] = "host"
    /\ last.op = "join_session" /\ last.raised = "none"
    /\ session[last.conn] \in Sessions
    /\ last.conn \in Elems(game_sessions[session[last.conn]].player_connections)

\* C28: the host_websocket of a session object is the connection that
\* created the session, and no step changes it or drops the object.
C28_HostIsSetOnceAtCreation ==
    [][/\ \A s \in Sessions :
            /\ s \in DOMAIN game_sessions'
            /\ game_sessions'[s].host_websocket = game_sessions[s].host_websocket
       /\ \A s \in (DOMAIN game_sessions') \ Sessions :
            /\ last'.op = "create_session" /\ last'.conn = s
            /\ pc[s] = "awaiting"
            /\ game_sessions'[s].host_websocket = s
      ]_vars

\* after a roster, a scene, a selection and then the disconnect of the
\* player that made it, the session's host is still the connection that
\* created it
C28_Witness ==
    /\ last.op = "disconnect" /\ last.conn \notin Sessions
    /\ session[last.conn] # NoSession
    /\ LET gs == game_sessions[session[last.conn]]
       IN  /\ gs.host_websocket = session[last.conn]
           /\ pc[gs.host_websocket] = "host"
           /\ gs.current_scene # None
           /\ Len(gs.characters) > 0
           /\ DOMAIN gs.assigned_characters # {}

\* C29: a create_session that comes while fewer sessions are registered than
\* there are codes returns: generate_session_code leaves its loop with a
\* code, and the session is registered under it or, when session_created
\* cannot be sent, removed again.
C29_CreateSessionReturns ==
    [][\A c \in Conns :
          /\ pc[c] = "awaiting"
          /\ last'.op = "create_session" /\ last'.conn = c
          /\ Cardinality(DOMAIN active_sessions) < Cardinality(CodeSpace)
          =>
            /\ ~hung'
            /\ c \in DOMAIN game_sessions'
            /\ game_sessions'[c].session_code \in CodeSpace
            /\ pc'[c] # "awaiting"
      ]_vars

\* C30: while a loop of host h is suspended on a send, a step of another
\* handler (a join, a selection, a disconnect, a player's error) takes no
\* connection out of those the loop has still to reach, except one that the
\* step itself disconnects or makes no longer qualify.
C30_SuspendedLoopSkipsNobody ==
    [][\A h \in Sessions :
          pc[h] \in {"bcast_state", "bcast_chars"} /\ last'.conn # h =>
            \A d \in Remaining(h, pc[h]) :
                /\ d \in Elems(game_sessions'[h].player_connections)
                /\ Qualifies(game_sessions'[h], d, pc[h])
                => d \in Remaining(h, pc[h])'
      ]_vars

\* C31: two players of a session select the same free index of the roster
\* concurrently: the second one's message is handled while the first one's
\* handler is suspended in the send of its confirmation.  The first one's
\* test and record were one step, so the second one's test finds the index
\* taken: the second is answered the character-taken error, does not get
\* the index, and the first keeps it and its confirmation; and what each of
\* them is sent when its send is over is the answer made in its own step.
C31_ConcurrentSelectionHasOneWinner ==
    [][\A c \in Conns :
          /\ \A d \in Conns \ {c}, i \in CharacterIndexInputs :
                /\ session[c] = session[d]
                /\ pc[d] = "assigning" /\ pending[d].type = "character_assigned"
                /\ d \in DOMAIN game_sessions[session[d]].assigned_characters
                /\ game_sessions[session[d]].assigned_characters[d] = i
                /\ SelectStep(c, i)
                =>
                  LET g2 == game_sessions'[session[c]]
                  IN  /\ pending'[c].to = c /\ pending'[c].type = "error"
                      /\ pending'[c].data.message = TakenMessage
                      /\ pending'[d] = pending[d]
                      /\ d \in DOMAIN g2.assigned_characters
                      /\ g2.assigned_characters[d] = i
                      /\ c \in DOMAIN g2.assigned_characters
                           => g2.assigned_characters[c] # i
          /\ ReplyStep(c) =>
                /\ Len(sent') >= 1
                /\ sent'[1].to = c
                /\ sent'[1].type = pending[c].type
                /\ sent'[1].data = pending[c].data
                /\ \A j \in 2..Len(sent') : sent'[j].type # "character_assigned"
      ]_vars

\* two players asked for the second character of the roster and both are
\* suspended in the send of their answer: one holds the character and is
\* being sent the confirmation, the other holds nothing and is being sent
\* the error
C31_Witness ==
    \E c \in Conns, d \in Conns :
        /\ c # d /\ session[c] = session[d] /\ session[c] # NoSession
        /\ pc[c] = "assigning" /\ pc[d] = "assigning"
        /\ pending[d].type = "character_assigned"
        /\ pending[c].type = "error" /\ pending[c].data.message = TakenMessage
        /\ last.op = "select_character" /\ last.conn = c /\ last.arg = 1
        /\ LET gs == game_sessions[session[c]]
           IN  /\ DOMAIN gs.assigned_characters = {d}
               /\ gs.assigned_characters[d] = 1

\* C32: a player's connection whose handler has ended, whether by a
\* disconnect or by an exception while handling a message or sending, is no
\* longer in player_connections of its session and holds no character there,
\* so the character it held is free for the other players.
C32_EndedHandlerIsNotAMember ==
    \A c \in Conns :
        pc[c] = "closed" /\ session[c] # NoSession /\ c \notin Sessions =>
            LET gs == game_sessions[session[c]]
            IN  /\ c \notin Elems(gs.player_connections)
                /\ c \notin DOMAIN gs.assigned_characters

\* C33: a player_action of a player that holds a character, handled while the
\* session has no scene yet (current_scene is None), is dropped: nothing is
\* sent to the host, no exception leaves handle_player_action, and the
\* player's handler keeps running with the player still in the session.
C33_ActionBeforeAnySceneIsDropped ==
    last.op = "player_action" /\ session[last.conn] # NoSession =>
        LET c == last.conn
            gs == game_sessions[session[c]]
        IN  c \in DOMAIN gs.assigned_characters /\ gs.current_scene = None =>
                /\ sent = <<>>
                /\ last.raised = "none"
                /\ pc[c] = "player"
                /\ c \in Elems(gs.player_connections)

\* C34: once the handler of a session's host has ended and the session has
\* been removed from the registry, no step sends a game_state_update to a
\* player of that session, the session's code is not registered again, and a
\* message of one of its players changes neither the registry nor another
\* session.
C34_NoUpdatesAfterTeardown ==
    [][\A s \in Sessions :
          pc[s] = "closed" =>
            LET gs == game_sessions[s]
                players == Elems(gs.player_connections)
            IN  /\ \A c \in players : SentTo(sent', c, "game_state_update") = {}
                /\ gs.session_code \notin DOMAIN active_sessions'
                /\ last'.conn \in players =>
                     /\ active_sessions' = active_sessions
                     /\ used_codes' = used_codes
                     /\ \A t \in Sessions \ {s} : game_sessions'[t] = game_sessions[t]
      ]_vars

\* C35: select_character(j) of a player c that holds index i.  For a free and
\* valid j other than i the assignment is replaced: c holds j and nothing
\* else, nobody holds i any more, the other players keep what they hold, c
\* is being sent character_assigned, and before the handler of a player
\* whose selection was confirmed is back in its loop the host has been told
\* of the index the player holds.  For j = i the answer to c is the
\* character-taken error and the step changes nothing else.
C35_ReselectionReplacesOwnIndexIsRefused ==
    [][\A c \in Conns :
          /\ \A j \in CharacterIndexInputs :
                SelectStep(c, j)
                /\ c \in DOMAIN game_sessions[session[c]].assigned_characters =>
                  LET g == game_sessions[session[c]]
                      g2 == game_sessions'[session[c]]
                      i == g.assigned_characters[c]
                      others == DOMAIN g.assigned_characters \ {c}
                  IN  /\ j = i =>
                           /\ pending'[c].to = c /\ pending'[c].type = "error"
                           /\ pending'[c].data.message = TakenMessage
                           /\ sent' = <<>>
                           /\ OthersUnchanged(c)
                      /\ /\ j # i
                         /\ j \notin DictValues(g.assigned_characters)
                         /\ 0 <= j /\ j < Len(g.characters)
                         =>
                           /\ i \notin DictValues(g2.assigned_characters)
                           /\ \A d \in others :
                                  /\ d \in DOMAIN g2.assigned_characters
                                  /\ g2.assigned_characters[d] = g.assigned_characters[d]
                           /\ DOMAIN g2.assigned_characters = DOMAIN g.assigned_characters
                           /\ g2.assigned_characters[c] = j
                           /\ pending'[c].to = c
                           /\ pending'[c].type = "character_assigned"
          /\ \/ NotifyStep(c)
             \/ /\ ReplyStep(c) /\ pending[c].type = "character_assigned"
                /\ last'.raised = "none" /\ pc'[c] = "player"
             =>
               \E n \in SentTo(sent', game_sessions[session[c]].host_websocket,
                                "player_character_assigned") :
                   sent'[n].data.character_index
                     = game_sessions[session[c]].assigned_characters[c]
      ]_vars

\* C36: a connection becomes the host of a session only in the step that
\* handles its first message, of type create_session, and a player of a
\* session only in the step that handles its first message, of type
\* join_session with a code the registry holds, and then of the session
\* registered under that code.  A handler that entered its loop without role
\* never gets one, is in no session, and the messages it sends leave the
\* registry and every session as they were.
C36_RolesComeFromTheFirstMessage ==
    [][\A c \in Conns :
          /\ pc'[c] \in HostStates /\ pc[c] \notin HostStates =>
                /\ pc[c] = "awaiting"
                /\ last'.op = "create_session" /\ last'.conn = c
          /\ \A s \in DOMAIN game_sessions' :
                /\ c \in Members(s)' 
                /\ (s \in Sessions => c \notin Members(s))
                =>
                  /\ pc[c] = "awaiting"
                  /\ last'.conn = c
                  /\ last'.op \in {"create_session", "join_session"}
                  /\ last'.op = "create_session" =>
                        s = c /\ game_sessions'[s].host_websocket = c
                  /\ last'.op = "join_session" =>
                        /\ last'.arg \in DOMAIN active_sessions
                        /\ active_sessions[last'.arg] = s
                        /\ pc'[c] = "joining"
          /\ pc'[c] \in PlayerStates /\ pc[c] \notin PlayerStates =>
                /\ pc[c] = "awaiting"
                /\ last'.op = "join_session" /\ last'.conn = c
          /\ pc[c] = "norole" =>
                /\ pc'[c] \in {"norole", "closed"}
                /\ session'[c] = NoSession
                /\ \A s \in DOMAIN game_sessions' : c \notin Members(s)'
                /\ last'.conn = c =>
                      /\ active_sessions' = active_sessions
                      /\ used_codes' = used_codes
                      /\ game_sessions' = game_sessions
                      /\ sent' = <<>>
          /\ pc[c] = "closed" => pc'[c] = "closed"
      ]_vars

\* while a session with its host is registered, a handler that entered its
\* loop without role has been sent a host's message and is still without role
C36_Witness ==
    /\ last.op \in {"update_characters", "update_game_state"}
    /\ last.conn \notin Sessions
    /\ pc[last.conn] = "norole"
    /\ session[last.conn] = NoSession
    /\ \E s \in Sessions :
          /\ pc[s] = "host"
          /\ get_session(active_sessions, game_sessions[s].session_code) = s

\* C37: in a game that starts with roundsInCurrentChapter 0 and whose
\* scenesPerChapter is k >= 1, each answer being folded into the next
\* request, the j-th action ends a chapter exactly when j is a multiple of
\* k; the roundsInChapter answered is the one answered before plus one when
\* the chapter goes on and 0 when it ends, and it is always in 0..k-1.
C37_ChapterEndsEveryKthAction ==
    LET k == game_state.settings.scenesPerChapter
    IN  k >= 1 =>
          \A j \in 1..Len(answers) :
              LET previous == IF j = 1 THEN 0 ELSE answers[j - 1].body.roundsInChapter
                  a == answers[j].body
              IN  /\ a.chapterEnded <=> (j % k = 0)
                  /\ a.roundsInChapter = IF a.chapterEnded THEN 0 ELSE previous + 1
                  /\ a.roundsInChapter \in 0..(k - 1)
                  /\ a.roundsInChapter = j % k

\* a game with scenesPerChapter 3 has had six actions: the third and the
\* sixth ended a chapter, and the client has the answer to the sixth
C37_Witness ==
    /\ game_state.settings.scenesPerChapter = 3
    /\ Len(answers) = 6
    /\ answers[3].body.chapterEnded /\ answers[6].body.chapterEnded
    /\ ~answers[5].body.chapterEnded
    /\ answers[5].body.roundsInChapter = 2
    /\ result # None /\ result.raised = "none"
    /\ result.body = answers[6].body

\* C38: the turn goes round the party.  Every answer of take_action, at a
\* chapter end as in mid-chapter, names as nextPlayerIndex the index after
\* currentPlayerIndex modulo the number of characters, which is an index of
\* the party; and in a game of n characters, among any n actions in a row
\* every index 0..n-1 is the acting one exactly once.
C38_TurnsGoRoundTheParty ==
    LET n == Len(game_state.characters)
    IN  /\ Answered =>
              /\ result.body.nextPlayerIndex = (game_state.currentPlayerIndex + 1) % n
              /\ result.body.nextPlayerIndex \in 0..(n - 1)
        /\ \A j \in 1..Len(answers) :
              /\ answers[j].body.nextPlayerIndex \in 0..(n - 1)
              /\ j < Len(answers) =>
                    answers[j + 1].player = answers[j].body.nextPlayerIndex
        /\ \A j \in 1..(Len(answers) - n + 1) :
              /\ {answers[i].player : i \in j..(j + n - 1)} = 0..(n - 1)
              /\ \A i1 \in j..(j + n - 1), i2 \in j..(j + n - 1) :
                    answers[i1].player = answers[i2].player => i1 = i2

\* a party of two whose second character acted first has had four actions,
\* the characters acting in turn, and one of the actions ended a chapter
C38_Witness ==
    /\ Len(game_state.characters) = 2
    /\ Len(answers) = 4
    /\ answers[1].player = 1 /\ answers[2].player = 0
    /\ answers[3].player = 1 /\ answers[4].player = 0
    /\ answers[2].body.chapterEnded /\ ~answers[3].body.chapterEnded
    /\ result # None /\ result.raised = "none"

\* C39: in every answer of take_action that ends a chapter, isFreshStart
\* holds exactly when the chapterCycle answered, the position of the next
\* chapter in its cycle, is 0, and the id of the next chapter is the current
\* chapter index plus one; this for every current chapter index from 0 on.
C39_FreshStartIffNextCycleBegins ==
    Answered /\ result.body.chapterEnded /\ game_state.currentChapterIndex >= 0 =>
        /\ result.body.isFreshStart <=> (result.body.chapterCycle = 0)
        /\ result.body.nextChapter.id = game_state.currentChapterIndex + 1

\* the action that ended chapter 5, the last of the second cycle, has been
\* answered with a fresh start, chapter 6 and cycle position 0
C39_Witness ==
    /\ Answered
    /\ result.body.chapterEnded
    /\ game_state.currentChapterIndex = 5
    /\ result.body.isFreshStart
    /\ result.body.chapterCycle = 0
    /\ result.body.nextChapter.id = 6

====
